---------------------------- MODULE Spec2Model ----------------------------
(***************************************************************************)
(* Gann Square of 9 calculator (src/app/utils/gann_square.py).              *)
(*                                                                         *)
(* The model follows the source statement by statement:                    *)
(*   - GannSquare._generate_square is the spiral walk, one loop iteration  *)
(*     per step;                                                           *)
(*   - the GannSquare queries are operators over the finished matrix;      *)
(*   - calculate_gann_levels is a sequence of steps over its local         *)
(*     variables, with its try/except.                                     *)
(*                                                                         *)
(* Numbers.  Python floats are modelled as a decimal floating-point format *)
(* with five significant digits whose smallest step is 0.001: a finite     *)
(* float is an integer count of thousandths ("milli"), and every           *)
(* arithmetic result is rounded by Rnd to the nearest representable value  *)
(* (ties to even), as IEEE arithmetic rounds to the nearest double.  NaN    *)
(* and the infinities are tagged values.  Grid values are integers.        *)
(*                                                                         *)
(* calculate_gann_levels builds GannSquare(size=150); the model runs the   *)
(* same function over the grid of the size chosen in Init (1..MaxSize), so *)
(* that the grid stays small enough to enumerate.                          *)
(***************************************************************************)
EXTENDS Integers, Sequences, FiniteSets, TLC

\* ------------------------------------------------------------------ bounds

\* GannSquare(size): the sizes 1..MaxSize are built.
MaxSize == 5

\* num_levels ranges over 0..MaxLevels.
MaxLevels == 3

\* The construction alone (SpecGrid) is run for the sizes 1..MaxWalkSize.
MaxWalkSize == 20

\* Grid sizes of the specification that calls the grid's methods.
MaxQuerySize == 7

\* ----------------------------------------------------- program constants

\* tests/test_gann_square.py setUp: GannSquare(size=20).
TestSize == 20

\* ------------------------------------------------------------------ floats

Abs(n) == IF n < 0 THEN -n ELSE n

\* n rounded to the nearest multiple of m, ties to the even multiple.
RoundTo(n, m) ==
    LET q == n \div m
        r == n % m
    IN  IF 2 * r < m THEN q * m
        ELSE IF 2 * r > m THEN (q + 1) * m
        ELSE IF q % 2 = 0 THEN q * m ELSE (q + 1) * m

\* The representable float nearest to the exact value n (in milli): five
\* significant digits, smallest step one milli.
Rnd(n) ==
    IF Abs(n) < 100000 THEN n
    ELSE IF Abs(n) < 1000000 THEN RoundTo(n, 10)
    ELSE IF Abs(n) < 10000000 THEN RoundTo(n, 100)
    ELSE RoundTo(n, 1000)

Fin(v) == [k |-> "fin", v |-> v]
NaN == [k |-> "nan", v |-> 0]
PosInf == [k |-> "inf", v |-> 1]
NegInf == [k |-> "inf", v |-> -1]
IsFinite(f) == f.k = "fin"

\* C fmod on finite values: exact, with the sign of the dividend.
Fmod(a, m) == IF a >= 0 THEN a % m ELSE -((-a) % m)

\* Python's float % for a positive finite divisor m on a finite a: fmod, then
\* the divisor is added when the remainder is non-zero and negative; that
\* addition is a float addition and rounds.
PyModFin(a, m) ==
    LET r == Fmod(a, m)
    IN  IF r # 0 /\ r < 0 THEN Rnd(r + m) ELSE r

\* Python's float % on any float: NaN for NaN and for the infinities.
PyMod(f, m) == IF IsFinite(f) THEN Fin(PyModFin(f.v, m)) ELSE NaN

\* f * 10.
Times10(f) == IF IsFinite(f) THEN Fin(Rnd(f.v * 10)) ELSE NaN

\* f + d for a finite d (milli).
PlusFin(f, d) ==
    IF IsFinite(f) THEN Fin(Rnd(f.v + d))
    ELSE f

\* ------------------------------------------------------------------ angles

\* math.degrees(math.atan2(dy, dx)) for 0 <= dy, dx <= 10, in millionths of a
\* degree: AtanTable[dy + 1][dx + 1].
AtanTable ==
  << <<       0,        0,        0,        0,        0,        0,        0,        0,        0,        0,        0>>,
     <<90000000, 45000000, 26565051, 18434949, 14036243, 11309932,  9462322,  8130102,  7125016,  6340192,  5710593>>,
     <<90000000, 63434949, 45000000, 33690068, 26565051, 21801409, 18434949, 15945396, 14036243, 12528808, 11309932>>,
     <<90000000, 71565051, 56309932, 45000000, 36869898, 30963757, 26565051, 23198591, 20556045, 18434949, 16699244>>,
     <<90000000, 75963757, 63434949, 53130102, 45000000, 38659808, 33690068, 29744881, 26565051, 23962489, 21801409>>,
     <<90000000, 78690068, 68198591, 59036243, 51340192, 45000000, 39805571, 35537678, 32005383, 29054604, 26565051>>,
     <<90000000, 80537678, 71565051, 63434949, 56309932, 50194429, 45000000, 40601295, 36869898, 33690068, 30963757>>,
     <<90000000, 81869898, 74054604, 66801409, 60255119, 54462322, 49398705, 45000000, 41185925, 37874984, 34992020>>,
     <<90000000, 82874984, 75963757, 69443955, 63434949, 57994617, 53130102, 48814075, 45000000, 41633539, 38659808>>,
     <<90000000, 83659808, 77471192, 71565051, 66037511, 60945396, 56309932, 52125016, 48366461, 45000000, 41987212>>,
     <<90000000, 84289407, 78690068, 73300756, 68198591, 63434949, 59036243, 55007980, 51340192, 48012788, 45000000>> >>

\* math.degrees(math.atan2(dy, dx)) as a float (milli): the table value by
\* quadrant, rounded to five significant digits.
Atan2Deg(dy, dx) ==
    LET t == AtanTable[Abs(dy) + 1][Abs(dx) + 1]
        u == IF dx >= 0 THEN t ELSE 180000000 - t
        s == IF dy < 0 THEN -u ELSE u
    IN  IF Abs(s) < 100000000 THEN RoundTo(s, 1000) \div 1000
        ELSE 10 * (RoundTo(s, 10000) \div 10000)

\* ------------------------------------------------------------------- state

VARIABLES
    size,          \* GannSquare.size
    matrix,        \* GannSquare.matrix: matrix[row][col], rows and columns 0..size-1
    gpc,           \* position in _generate_square: "loop" or "done"
    x, y,          \* _generate_square: current cell (column x, row y)
    value,         \* _generate_square: next value to write
    dir_idx,       \* _generate_square: index into directions
    steps,         \* _generate_square: length of the current leg
    step_count,    \* _generate_square: steps taken in the current leg
    last_cell      \* the cell written by the latest loop iteration, <<row, col>>

gridVars == <<size, matrix, gpc, x, y, value, dir_idx, steps, step_count, last_cell>>

\* calculate_gann_levels: its arguments, its locals and how the call ended.
VARIABLES
    pc,                \* position in calculate_gann_levels
    price,             \* argument (float)
    sun_angle,         \* argument (float)
    num_levels,        \* argument (int)
    normalized_price,  \* float
    scaled_price,      \* float
    nearest_value,     \* int
    spoke_values,      \* list of int
    nearest_idx,       \* int, -1 before it is assigned
    up_values,         \* list of int
    down_values,       \* list of int
    up_levels,         \* list of float or None
    down_levels,       \* list of float or None
    result,            \* the returned dict, NoResult before the return
    outcome,           \* "running", "returned" or "raised" (exception reached the caller)
    path               \* the statements executed so far in this call

callVars == <<pc, price, sun_angle, num_levels, normalized_price, scaled_price,
              nearest_value, spoke_values, nearest_idx, up_values, down_values,
              up_levels, down_levels, result, outcome, path>>

\* A call of one GannSquare method by a client of the finished grid: which
\* method, its arguments and what it returned.
VARIABLES
    qpc,       \* "idle" between calls, "answered" when a call has returned
    qop,       \* the method called, "none" before the first call
    qvalue,    \* the integer argument: value
    qfloat,    \* the float argument: value of find_nearest_value, sun_angle
    qtol,      \* the tolerance argument of is_on_cardinal_angle (milli)
    qres       \* the returned value

queryVars == <<qpc, qop, qvalue, qfloat, qtol, qres>>

\* One call of a backend function (an endpoint handler of api/endpoints.py, or
\* a utility it calls) and what it delivered.
VARIABLES
    firestore_available, \* module flag: the firestore import succeeded
    apc,            \* "idle", "attempting" (levels loop), "downloading"
                    \* (history loop) or "done"
    aop,            \* the function called, "none" when idle
    ticker,         \* its ticker argument, as the function body sees it
    recalculate,    \* query parameter of GET /levels/{ticker}
    attempt,        \* for attempt in range(max_retries); max_retries when exhausted
    retry_delay,    \* seconds
    retry_count,    \* of get_historical_data
    sleeps,         \* the sleeps performed so far, in seconds
    yields,         \* what each try of the callee (calculate_levels_for_ticker,
                    \* yf.download) yielded, in order
    market_data,    \* what get_historical_data gave get_ticker_history
    response,       \* the HTTP response or the function's return / exception
    current_price,  \* of check_price_breaches, None or Some(milli)
    levels_data,    \* of check_price_breaches
    breaches        \* the dict check_price_breaches returned

apiVars == <<firestore_available, apc, aop, ticker, recalculate, attempt, retry_delay,
             retry_count, sleeps, yields, market_data, response, current_price,
             levels_data, breaches>>

vars == <<gridVars, callVars, queryVars, apiVars>>

\* directions = [(1, 0), (0, 1), (-1, 0), (0, -1)], as <<dx, dy>>.
directions == << <<1, 0>>, <<0, 1>>, <<-1, 0>>, <<0, -1>> >>

\* The state of _generate_square when it reaches its while loop.
GenerateStart(n) ==
    /\ size = n
    /\ matrix = [r \in 0..(n - 1) |->
                   [c \in 0..(n - 1) |->
                      IF r = n \div 2 /\ c = n \div 2 THEN 1 ELSE 0]]
    /\ x = n \div 2
    /\ y = n \div 2
    /\ value = 2
    /\ dir_idx = 0
    /\ steps = 1
    /\ step_count = 0
    /\ gpc = "loop"
    /\ last_cell = <<n \div 2, n \div 2>>

InBounds(cx, cy) == 0 <= cx /\ cx < size /\ 0 <= cy /\ cy < size

\* The loop iteration with a leg length that never grows.
SpiralWrite_NoGrowth ==
    /\ gpc = "loop"
    /\ value <= size * size
    /\ LET nx == x + directions[dir_idx + 1][1]
           ny == y + directions[dir_idx + 1][2]
           turn == step_count + 1 = steps
           nd == (dir_idx + 1) % 4
       IN  /\ InBounds(nx, ny)
           /\ x' = nx
           /\ y' = ny
           /\ matrix' = [matrix EXCEPT ![ny][nx] = value]
           /\ last_cell' = <<ny, nx>>
           /\ value' = value + 1
           /\ step_count' = IF turn THEN 0 ELSE step_count + 1
           /\ dir_idx' = IF turn THEN nd ELSE dir_idx
           /\ steps' = steps
    /\ UNCHANGED <<apiVars, size, gpc, callVars, queryVars>>

\* The loop iteration with a leg length that grows at every turn.
SpiralWrite_GrowEveryTurn ==
    /\ gpc = "loop"
    /\ value <= size * size
    /\ LET nx == x + directions[dir_idx + 1][1]
           ny == y + directions[dir_idx + 1][2]
           turn == step_count + 1 = steps
           nd == (dir_idx + 1) % 4
       IN  /\ InBounds(nx, ny)
           /\ x' = nx
           /\ y' = ny
           /\ matrix' = [matrix EXCEPT ![ny][nx] = value]
           /\ last_cell' = <<ny, nx>>
           /\ value' = value + 1
           /\ step_count' = IF turn THEN 0 ELSE step_count + 1
           /\ dir_idx' = IF turn THEN nd ELSE dir_idx
           /\ steps' = IF turn THEN steps + 1 ELSE steps
    /\ UNCHANGED <<apiVars, size, gpc, callVars, queryVars>>

\* The loop iteration with a leg length that grows when the new direction is
\* (0, 1) or (0, -1).
SpiralWrite_GrowAfterHorizontal ==
    /\ gpc = "loop"
    /\ value <= size * size
    /\ LET nx == x + directions[dir_idx + 1][1]
           ny == y + directions[dir_idx + 1][2]
           turn == step_count + 1 = steps
           nd == (dir_idx + 1) % 4
       IN  /\ InBounds(nx, ny)
           /\ x' = nx
           /\ y' = ny
           /\ matrix' = [matrix EXCEPT ![ny][nx] = value]
           /\ last_cell' = <<ny, nx>>
           /\ value' = value + 1
           /\ step_count' = IF turn THEN 0 ELSE step_count + 1
           /\ dir_idx' = IF turn THEN nd ELSE dir_idx
           /\ steps' = IF turn /\ (nd = 1 \/ nd = 3) THEN steps + 1 ELSE steps
    /\ UNCHANGED <<apiVars, size, gpc, callVars, queryVars>>

\* One iteration of the while loop that stays inside the matrix.
SpiralWrite ==
    /\ gpc = "loop"
    /\ value <= size * size
    /\ LET nx == x + directions[dir_idx + 1][1]
           ny == y + directions[dir_idx + 1][2]
           turn == step_count + 1 = steps
           nd == (dir_idx + 1) % 4
       IN  /\ InBounds(nx, ny)
           /\ x' = nx
           /\ y' = ny
           /\ matrix' = [matrix EXCEPT ![ny][nx] = value]
           /\ last_cell' = <<ny, nx>>
           /\ value' = value + 1
           /\ step_count' = IF turn THEN 0 ELSE step_count + 1
           /\ dir_idx' = IF turn THEN nd ELSE dir_idx
           /\ steps' = IF turn /\ (nd = 0 \/ nd = 2) THEN steps + 1 ELSE steps
    /\ UNCHANGED <<apiVars, size, gpc, callVars, queryVars>>

\* The iteration whose move leaves the matrix goes on without writing.
SpiralBreak_SkipCell ==
    /\ gpc = "loop"
    /\ value <= size * size
    /\ LET nx == x + directions[dir_idx + 1][1]
           ny == y + directions[dir_idx + 1][2]
           turn == step_count + 1 = steps
           nd == (dir_idx + 1) % 4
       IN  /\ ~InBounds(nx, ny)
           /\ x' = nx
           /\ y' = ny
           /\ step_count' = IF turn THEN 0 ELSE step_count + 1
           /\ dir_idx' = IF turn THEN nd ELSE dir_idx
           /\ steps' = IF turn /\ (nd = 0 \/ nd = 2) THEN steps + 1 ELSE steps
    /\ UNCHANGED <<apiVars, size, matrix, gpc, value, last_cell, callVars, queryVars>>

\* The iteration whose move leaves the matrix: break.
SpiralBreak ==
    /\ gpc = "loop"
    /\ value <= size * size
    /\ LET nx == x + directions[dir_idx + 1][1]
           ny == y + directions[dir_idx + 1][2]
       IN  /\ ~InBounds(nx, ny)
           /\ x' = nx
           /\ y' = ny
    /\ gpc' = "done"
    /\ UNCHANGED <<apiVars, size, matrix, value, dir_idx, steps, step_count, last_cell, callVars, queryVars>>

\* The loop condition fails: every value up to size * size was written.
SpiralExit ==
    /\ gpc = "loop"
    /\ value > size * size
    /\ gpc' = "done"
    /\ UNCHANGED <<apiVars, size, matrix, x, y, value, dir_idx, steps, step_count, last_cell,
                   callVars, queryVars>>

\* -------------------------------------------------------- GannSquare queries

\* The missing marker (Python's None) and a present value.
None == << >>
Some(v) == <<v>>

\* matrix.flatten(): entry i (from 0) of the row-major flattening.
Flat(i) == matrix[i \div size][i % size]

\* The last index at which d is minimal.
ArgMin_Last(d, n) ==
    CHOOSE i \in 0..(n - 1) :
        /\ \A j \in 0..(n - 1) : d[i] <= d[j]
        /\ \A j \in (i + 1)..(n - 1) : d[j] > d[i]

\* The first index in 0..(n - 1) at which d is minimal: argmin, and min(range(n), key=d).
ArgMin(d, n) ==
    CHOOSE i \in 0..(n - 1) :
        /\ \A j \in 0..(n - 1) : d[i] <= d[j]
        /\ \A j \in 0..(i - 1) : d[j] > d[i]

\* find_nearest_value(value): np.abs(flat_matrix - value).argmin(), which is 0
\* when every difference is NaN.
find_nearest_value(target) ==
    IF IsFinite(target)
    THEN Flat(ArgMin([i \in 0..(size * size - 1) |->
                         Abs(Rnd(Flat(i) * 1000 - target.v))], size * size))
    ELSE Flat(0)

\* get_position(value): the first cell in row-major order that holds the value.
get_position(v) ==
    LET hits == {i \in 0..(size * size - 1) : Flat(i) = v}
    IN  IF hits = {} THEN None
        ELSE LET i == CHOOSE h \in hits : \A g \in hits : h <= g
             IN  <<i \div size, i % size>>

\* get_angle without the special case of the center cell.
get_angle_NoCenterCase(v) ==
    LET position == get_position(v)
    IN  IF position = None THEN None
        ELSE LET dx == position[2] - size \div 2
                 dy == position[1] - size \div 2
                 deg == Atan2Deg(dy, dx)
                 pos == IF deg < 0 THEN Rnd(deg + 360000) ELSE deg
             IN  Some(PyModFin(Rnd(pos + 90000), 360000))

\* get_angle without the quarter turn that puts 0 degrees at the top.
get_angle_NoQuarterTurn(v) ==
    LET position == get_position(v)
    IN  IF position = None THEN None
        ELSE LET dx == position[2] - size \div 2
                 dy == position[1] - size \div 2
                 deg == Atan2Deg(dy, dx)
                 pos == IF deg < 0 THEN Rnd(deg + 360000) ELSE deg
             IN  IF dx = 0 /\ dy = 0 THEN Some(0)
                 ELSE Some(PyModFin(pos, 360000))

\* get_angle(value).
get_angle(v) ==
    LET position == get_position(v)
    IN  IF position = None THEN None
        ELSE LET dx == position[2] - size \div 2
                 dy == position[1] - size \div 2
                 deg == Atan2Deg(dy, dx)
                 pos == IF deg < 0 THEN Rnd(deg + 360000) ELSE deg
             IN  IF dx = 0 /\ dy = 0 THEN Some(0)
                 ELSE Some(PyModFin(Rnd(pos + 90000), 360000))

\* abs(angle - other) <= tolerance: the difference without the wrap at 360.
WithinTolerance_NoWrap(angle, other, tolerance) ==
    /\ IsFinite(other)
    /\ Abs(Rnd(angle - other.v)) <= tolerance

\* abs((angle - other + 180) % 360 - 180) <= tolerance, false when other is NaN.
WithinTolerance(angle, other, tolerance) ==
    /\ IsFinite(other)
    /\ Abs(Rnd(PyModFin(Rnd(Rnd(angle - other.v) + 180000), 360000) - 180000))
          <= tolerance

\* self.cardinal_angles = [0, 45, 90, 135, 180, 225, 270, 315]
cardinal_angles == <<0, 45, 90, 135, 180, 225, 270, 315>>

\* is_on_cardinal_angle(value, tolerance).
is_on_cardinal_angle(v, tolerance) ==
    LET angle == get_angle(v)
    IN  IF angle = None THEN FALSE
        ELSE \E i \in 1..Len(cardinal_angles) :
                 WithinTolerance(angle[1], Fin(cardinal_angles[i] * 1000), tolerance)

\* The spoke scan over range(1, size * size): the last value is left out.
OnSpoke_SkipsLast(spoke_angle) ==
    SelectSeq([v \in 1..(size * size - 1) |-> v],
              LAMBDA v : /\ get_angle(v) # None
                         /\ WithinTolerance(get_angle(v)[1], spoke_angle, 5000))

\* The values 1..n, in order, whose angle is within 5 degrees of spoke_angle.
OnSpoke(spoke_angle) ==
    SelectSeq([v \in 1..(size * size) |-> v],
              LAMBDA v : /\ get_angle(v) # None
                         /\ WithinTolerance(get_angle(v)[1], spoke_angle, 5000))

\* The spoke loop over range(9): the ninth spoke is the first one again.
RECURSIVE SpokesFrom_NineSpokes(_, _)
SpokesFrom_NineSpokes(i, angle) ==
    IF i = 9 THEN << >>
    ELSE OnSpoke(PyMod(PlusFin(angle, i * 45000), 360000))
             \o SpokesFrom_NineSpokes(i + 1, angle)

\* The spoke loop over four spokes that are 90 degrees apart.
RECURSIVE SpokesFrom_EveryNinety(_, _)
SpokesFrom_EveryNinety(i, angle) ==
    IF i >= 4 THEN << >>
    ELSE OnSpoke(PyMod(PlusFin(angle, i * 90000), 360000))
             \o SpokesFrom_EveryNinety(i + 1, angle)

RECURSIVE SpokesFrom(_, _)
SpokesFrom(i, angle) ==
    IF i = 8 THEN << >>
    ELSE OnSpoke(PyMod(PlusFin(angle, i * 45000), 360000)) \o SpokesFrom(i + 1, angle)

\* A spoke search that measures the spokes from the angle of its value argument.
find_spoke_values_Anchored(v, angle) ==
    IF get_angle(v) = None THEN SpokesFrom(0, angle)
    ELSE SpokesFrom(0, PlusFin(angle, get_angle(v)[1]))

\* find_spoke_values(value, sun_angle): spoke by spoke, unsorted.
find_spoke_values(v, angle) == SpokesFrom(0, angle)

\* --------------------------------------------------------- list operations

RECURSIVE Insert(_, _)
Insert(s, e) ==
    IF s = << >> THEN <<e>>
    ELSE IF e < Head(s) THEN <<e>> \o s
    ELSE <<Head(s)>> \o Insert(Tail(s), e)

\* The list left as it is.
Sorted_Unsorted(s) == s

RECURSIVE Sorted(_)
\* list.sort(): ascending.
Sorted(s) == IF s = << >> THEN << >> ELSE Insert(Sorted(Tail(s)), Head(s))

Min2(a, b) == IF a < b THEN a ELSE b
Max2(a, b) == IF a > b THEN a ELSE b

\* s[lo:hi] for 0 <= lo and 0 <= hi (0-based, hi exclusive, clipped to the list).
Slice(s, lo, hi) == SubSeq(s, lo + 1, Min2(hi, Len(s)))

\* s[-n:] for n >= 0: the last n entries, and the whole list for n = 0.
LastN(s, n) == IF n = 0 THEN s ELSE SubSeq(s, Max2(1, Len(s) - n + 1), Len(s))

\* [e] * n.
Repeat(e, n) == [i \in 1..n |-> e]

\* s.index(e) (0-based), -1 standing for ValueError.
IndexOf(s, e) ==
    IF \E i \in 1..Len(s) : s[i] = e
    THEN (CHOOSE i \in 1..Len(s) : s[i] = e /\ \A j \in 1..(i - 1) : s[j] # e) - 1
    ELSE -1

\* --------------------------------------------------- calculate_gann_levels

\* The prices, reference angles and level counts the calls are made with.
Prices ==
    {Fin(p) : p \in {0, 30, 150, 200, 300, 700, 1200, 2500, 100250, 360500, 36000000,
                      -1, -359300}}
        \cup {NaN, PosInf, NegInf}

Angles ==
    {Fin(a) : a \in {0, 20000, 22000, 40000, 90000, 357000}} \cup {NaN, PosInf}

Levels == 0..MaxLevels

NoResult == [up_levels |-> << >>, down_levels |-> << >>]

\* The locals of a call that has not started.
FrameCleared ==
    /\ pc = "ready"
    /\ price = Fin(0)
    /\ sun_angle = Fin(0)
    /\ num_levels = 0
    /\ normalized_price = Fin(0)
    /\ scaled_price = Fin(0)
    /\ nearest_value = 0
    /\ spoke_values = << >>
    /\ nearest_idx = -1
    /\ up_values = << >>
    /\ down_values = << >>
    /\ up_levels = << >>
    /\ down_levels = << >>
    /\ result = NoResult
    /\ outcome = "running"
    /\ path = << >>

\* The all-missing result built from empty lists.
AllMissing_EmptyLists(n) == [up_levels |-> << >>, down_levels |-> << >>]

\* {"up_levels": [None] * num_levels, "down_levels": [None] * num_levels}
AllMissing(n) == [up_levels |-> Repeat(None, n), down_levels |-> Repeat(None, n)]

\* price % 360
Normalized(p) == PyMod(p, 360000)

\* int(price / 360): truncation toward zero instead of the floor.
Octave_Truncating(p) == IF p.v >= 0 THEN p.v \div 360000 ELSE -((-p.v) \div 360000)

\* math.floor(price / 360) for a finite price.
Octave(p) == p.v \div 360000

\* (v / 10) + (math.floor(price / 360) * 360)
Level(v, p) == Rnd(Rnd(v * 100) + Rnd(Octave(p) * 360000))

\* The index search whose fallback takes the last of the equally close values.
NearestIdx_TieUpper(s, nv) ==
    IF IndexOf(s, nv) >= 0 THEN IndexOf(s, nv)
    ELSE ArgMin_Last([i \in 0..(Len(s) - 1) |-> Abs(s[i + 1] - nv)], Len(s))

\* The index search of lines 274-282: list.index, and on ValueError the first
\* index whose value is closest to nearest_value.
NearestIdx(s, nv) ==
    IF IndexOf(s, nv) >= 0 THEN IndexOf(s, nv)
    ELSE ArgMin([i \in 0..(Len(s) - 1) |-> Abs(s[i + 1] - nv)], Len(s))

\* The up slice starting at the anchor itself.
UpSlice_FromAnchor(s, idx, n) == Slice(s, idx, idx + n)

\* spoke_values[nearest_idx+1 : nearest_idx+1+num_levels]
UpSlice(s, idx, n) == Slice(s, idx + 1, idx + 1 + n)

\* The down slice that takes the anchor as its last value.
DownSlice_ThroughAnchor(s, idx, n) == Slice(s, Max2(0, idx + 1 - n), idx + 1)

\* spoke_values[max(0, nearest_idx-num_levels) : nearest_idx]
DownSlice(s, idx, n) == Slice(s, Max2(0, idx - n), idx)

\* Padding that is left out.
Padded_NoPadding(s, n) == s

\* Padding inserted at the front of the list.
Padded_AtFront(s, n) == IF Len(s) < n THEN Repeat(None, n - Len(s)) \o s ELSE s

\* while len(levels) < num_levels: levels.append(None)
Padded(s, n) == IF Len(s) < n THEN s \o Repeat(None, n - Len(s)) ELSE s

\* The call: the arguments are bound.
Call ==
    /\ gpc = "done"
    /\ pc = "ready"
    /\ \E p \in Prices, a \in Angles, n \in Levels :
          /\ price' = p
          /\ sun_angle' = a
          /\ num_levels' = n
    /\ pc' = "normalize"
    /\ path' = <<"call">>
    /\ UNCHANGED <<apiVars, gridVars, queryVars, normalized_price, scaled_price, nearest_value,
                   spoke_values, nearest_idx, up_values, down_values, up_levels,
                   down_levels, result, outcome>>

\* Lines 246-250.
Normalize ==
    /\ pc = "normalize"
    /\ normalized_price' = Normalized(price)
    /\ scaled_price' = Times10(Normalized(price))
    /\ pc' = "nearest"
    /\ path' = Append(path, "normalize")
    /\ UNCHANGED <<apiVars, gridVars, queryVars, price, sun_angle, num_levels, nearest_value,
                   spoke_values, nearest_idx, up_values, down_values, up_levels,
                   down_levels, result, outcome>>

\* Line 254.
Nearest ==
    /\ pc = "nearest"
    /\ nearest_value' = find_nearest_value(scaled_price)
    /\ pc' = "spokes"
    /\ path' = Append(path, "nearest")
    /\ UNCHANGED <<apiVars, gridVars, queryVars, price, sun_angle, num_levels, normalized_price,
                   scaled_price, spoke_values, nearest_idx, up_values, down_values,
                   up_levels, down_levels, result, outcome>>

\* Lines 259-263: the spoke search, then the sort.
Spokes ==
    /\ pc = "spokes"
    /\ spoke_values' = Sorted(find_spoke_values(nearest_value, sun_angle))
    /\ pc' = "check"
    /\ path' = Append(path, "spokes")
    /\ UNCHANGED <<apiVars, gridVars, queryVars, price, sun_angle, num_levels, normalized_price,
                   scaled_price, nearest_value, nearest_idx, up_values, down_values,
                   up_levels, down_levels, result, outcome>>

\* Lines 266-271: no spoke values.
ReturnEmpty ==
    /\ pc = "check"
    /\ spoke_values = << >>
    /\ result' = AllMissing(num_levels)
    /\ outcome' = "returned"
    /\ pc' = "done"
    /\ path' = Append(path, "return_empty")
    /\ UNCHANGED <<apiVars, gridVars, queryVars, price, sun_angle, num_levels, normalized_price,
                   scaled_price, nearest_value, spoke_values, nearest_idx, up_values,
                   down_values, up_levels, down_levels>>

\* Lines 274-282.
Index ==
    /\ pc = "check"
    /\ spoke_values # << >>
    /\ nearest_idx' = NearestIdx(spoke_values, nearest_value)
    /\ pc' = "slice"
    /\ path' = Append(path, "index")
    /\ UNCHANGED <<apiVars, gridVars, queryVars, price, sun_angle, num_levels, normalized_price,
                   scaled_price, nearest_value, spoke_values, up_values, down_values,
                   up_levels, down_levels, result, outcome>>

\* Lines 285-286.
SliceValues ==
    /\ pc = "slice"
    /\ up_values' = UpSlice(spoke_values, nearest_idx, num_levels)
    /\ down_values' = DownSlice(spoke_values, nearest_idx, num_levels)
    /\ pc' = "rescale"
    /\ path' = Append(path, "slice")
    /\ UNCHANGED <<apiVars, gridVars, queryVars, price, sun_angle, num_levels, normalized_price,
                   scaled_price, nearest_value, spoke_values, nearest_idx, up_levels,
                   down_levels, result, outcome>>

\* math.floor(price / 360) is evaluated once per raw value and raises ValueError
\* for NaN and OverflowError for an infinity.
RescaleFails == ~IsFinite(price) /\ (up_values # << >> \/ down_values # << >>)

\* Lines 290-291.
Rescale ==
    /\ pc = "rescale"
    /\ ~RescaleFails
    /\ up_levels' = [i \in 1..Len(up_values) |-> Some(Level(up_values[i], price))]
    /\ down_levels' = [i \in 1..Len(down_values) |-> Some(Level(down_values[i], price))]
    /\ pc' = "pad"
    /\ path' = Append(path, "rescale")
    /\ UNCHANGED <<apiVars, gridVars, queryVars, price, sun_angle, num_levels, normalized_price,
                   scaled_price, nearest_value, spoke_values, nearest_idx, up_values,
                   down_values, result, outcome>>

\* Lines 290-291 raising: control passes to the except clause.
RescaleRaise ==
    /\ pc = "rescale"
    /\ RescaleFails
    /\ pc' = "except"
    /\ path' = Append(path, "rescale_raise")
    /\ UNCHANGED <<apiVars, gridVars, queryVars, price, sun_angle, num_levels, normalized_price,
                   scaled_price, nearest_value, spoke_values, nearest_idx, up_values,
                   down_values, up_levels, down_levels, result, outcome>>

\* Lines 295-298.
Pad ==
    /\ pc = "pad"
    /\ up_levels' = Padded(up_levels, num_levels)
    /\ down_levels' = Padded(down_levels, num_levels)
    /\ pc' = "result"
    /\ path' = Append(path, "pad")
    /\ UNCHANGED <<apiVars, gridVars, queryVars, price, sun_angle, num_levels, normalized_price,
                   scaled_price, nearest_value, spoke_values, nearest_idx, up_values,
                   down_values, result, outcome>>

\* Lines 300-305.
Return ==
    /\ pc = "result"
    /\ result' = [up_levels |-> Slice(up_levels, 0, num_levels),
                  down_levels |-> LastN(down_levels, num_levels)]
    /\ outcome' = "returned"
    /\ pc' = "done"
    /\ path' = Append(path, "return")
    /\ UNCHANGED <<apiVars, gridVars, queryVars, price, sun_angle, num_levels, normalized_price,
                   scaled_price, nearest_value, spoke_values, nearest_idx, up_values,
                   down_values, up_levels, down_levels>>

\* An except clause that re-raises.
Except_Propagates ==
    /\ pc = "except"
    /\ outcome' = "raised"
    /\ pc' = "done"
    /\ path' = Append(path, "except")
    /\ UNCHANGED <<apiVars, gridVars, queryVars, price, sun_angle, num_levels, normalized_price,
                   scaled_price, nearest_value, spoke_values, nearest_idx, up_values,
                   down_values, up_levels, down_levels, result>>

\* An except clause that returns the raw values found before the failure.
Except_ReturnsRaw ==
    /\ pc = "except"
    /\ result' = [up_levels |-> [i \in 1..Len(up_values) |-> <<up_values[i] * 100>>],
                  down_levels |-> [i \in 1..Len(down_values) |-> <<down_values[i] * 100>>]]
    /\ outcome' = "returned"
    /\ pc' = "done"
    /\ path' = Append(path, "except")
    /\ UNCHANGED <<apiVars, gridVars, queryVars, price, sun_angle, num_levels, normalized_price,
                   scaled_price, nearest_value, spoke_values, nearest_idx, up_values,
                   down_values, up_levels, down_levels>>

\* Lines 307-315: except Exception.
Except ==
    /\ pc = "except"
    /\ result' = AllMissing(num_levels)
    /\ outcome' = "returned"
    /\ pc' = "done"
    /\ path' = Append(path, "except")
    /\ UNCHANGED <<apiVars, gridVars, queryVars, price, sun_angle, num_levels, normalized_price,
                   scaled_price, nearest_value, spoke_values, nearest_idx, up_values,
                   down_values, up_levels, down_levels>>

\* The caller is done with the result; the next call starts with fresh locals.
NextCall ==
    /\ pc = "done"
    /\ pc' = "ready"
    /\ price' = Fin(0)
    /\ sun_angle' = Fin(0)
    /\ num_levels' = 0
    /\ normalized_price' = Fin(0)
    /\ scaled_price' = Fin(0)
    /\ nearest_value' = 0
    /\ spoke_values' = << >>
    /\ nearest_idx' = -1
    /\ up_values' = << >>
    /\ down_values' = << >>
    /\ up_levels' = << >>
    /\ down_levels' = << >>
    /\ result' = NoResult
    /\ outcome' = "running"
    /\ path' = << >>
    /\ UNCHANGED <<apiVars, gridVars, queryVars>>

\* ------------------------------------------------- calls of the grid methods

\* The arguments the methods are called with: values in and out of the grid
\* (0, size * size + 1 and the tests' 1000 among them), targets on and between
\* the values, reference angles in and out of [0, 360), and tolerances.
QueryValues == (0..(size * size + 1)) \cup {1000}

SpokeQueryValues == {0, 1, 10, 1000}

QueryTargets ==
    {Fin(t) : t \in {-2000, 0, 300, 500, 1000, 1500, 2500, 6500, 10500, 24500, 100000}}
        \cup {NaN}

QueryAngles ==
    {Fin(a) : a \in {0, 22000, 90000, 129990, 357000, -45000, 405000}} \cup {NaN}

QueryTolerances == {0, 5000, 20000}

\* No method has been called, or the last answer has been taken.
QueryCleared ==
    /\ qpc = "idle"
    /\ qop = "none"
    /\ qvalue = 0
    /\ qfloat = Fin(0)
    /\ qtol = 0
    /\ qres = None

\* find_nearest_value working on the matrix itself instead of a flattened copy.
QueryNearest_InPlace ==
    /\ gpc = "done"
    /\ qpc = "idle"
    /\ \E t \in QueryTargets :
          /\ qfloat' = t
          /\ qres' = find_nearest_value(t)
          /\ matrix' = [r \in 0..(size - 1) |->
                          [c \in 0..(size - 1) |->
                             IF IsFinite(t) THEN Abs(matrix[r][c] - t.v \div 1000)
                             ELSE 0]]
    /\ qop' = "find_nearest_value"
    /\ qpc' = "answered"
    /\ UNCHANGED <<apiVars, size, gpc, x, y, value, dir_idx, steps, step_count, last_cell,
                   callVars, qvalue, qtol>>

\* square.find_nearest_value(target)
QueryNearest ==
    /\ gpc = "done"
    /\ qpc = "idle"
    /\ \E t \in QueryTargets :
          /\ qfloat' = t
          /\ qres' = find_nearest_value(t)
    /\ qop' = "find_nearest_value"
    /\ qpc' = "answered"
    /\ UNCHANGED <<apiVars, gridVars, callVars, qvalue, qtol>>

\* square.get_position(v)
QueryPosition ==
    /\ gpc = "done"
    /\ qpc = "idle"
    /\ \E v \in QueryValues :
          /\ qvalue' = v
          /\ qres' = get_position(v)
    /\ qop' = "get_position"
    /\ qpc' = "answered"
    /\ UNCHANGED <<apiVars, gridVars, callVars, qfloat, qtol>>

\* square.get_angle(v)
QueryAngle ==
    /\ gpc = "done"
    /\ qpc = "idle"
    /\ \E v \in QueryValues :
          /\ qvalue' = v
          /\ qres' = get_angle(v)
    /\ qop' = "get_angle"
    /\ qpc' = "answered"
    /\ UNCHANGED <<apiVars, gridVars, callVars, qfloat, qtol>>

\* square.is_on_cardinal_angle(v, tolerance)
QueryCardinal ==
    /\ gpc = "done"
    /\ qpc = "idle"
    /\ \E v \in QueryValues, t \in QueryTolerances :
          /\ qvalue' = v
          /\ qtol' = t
          /\ qres' = is_on_cardinal_angle(v, t)
    /\ qop' = "is_on_cardinal_angle"
    /\ qpc' = "answered"
    /\ UNCHANGED <<apiVars, gridVars, callVars, qfloat>>

\* square.find_spoke_values(v, sun_angle)
QuerySpokes ==
    /\ gpc = "done"
    /\ qpc = "idle"
    /\ \E v \in SpokeQueryValues, a \in QueryAngles :
          /\ qvalue' = v
          /\ qfloat' = a
          /\ qres' = find_spoke_values(v, a)
    /\ qop' = "find_spoke_values"
    /\ qpc' = "answered"
    /\ UNCHANGED <<apiVars, gridVars, callVars, qtol>>

\* The caller takes the answer; the next call can be made.
QueryReturn ==
    /\ qpc = "answered"
    /\ qpc' = "idle"
    /\ qop' = "none"
    /\ qvalue' = 0
    /\ qfloat' = Fin(0)
    /\ qtol' = 0
    /\ qres' = None
    /\ UNCHANGED <<apiVars, gridVars, callVars>>

\* ------------------------------------------------------------ backend API

\* max_retries = 3 of get_levels_for_ticker.
max_retries == 3

\* max_retries = 3 of get_historical_data.
history_max_retries == 3

\* The ticker symbols a client sends.
Tickers == {"aapl", "SPY"}

\* ticker.upper()
upper(t) == IF t = "aapl" THEN "AAPL" ELSE t

\* The documents get_gann_levels finds and the dicts
\* calculate_levels_for_ticker returns, by name.
StoredLevels == {"stored_levels"}
CalculatedLevels == {"levels_1", "levels_2"}

\* What one call of calculate_levels_for_ticker, or of get_gann_levels, gives
\* its caller besides levels: None, or an exception.
Failures == {"none", "raised"}

\* The frames yf.download returns, by the date keys of their rows in index
\* order, and what else one try of the loop body of get_historical_data meets:
\* an empty frame, a frame without the required columns, an exception of the
\* download, an exception before the download (strftime of the dates).
HistoryData == { <<1>>, <<2, 1>>, <<1, 1, 2>> }
DownloadYields == {"empty", "missing_columns", "exception", "bad_dates", "data"}

\* Before a call: nothing delivered.
NoResponse == [status |-> 0, raised |-> "", detail |-> << >>, body |-> "", rows |-> << >>]

\* return <body>: FastAPI answers 200 with the returned value.
Ok(body, rows) == [status |-> 200, raised |-> "", detail |-> << >>, body |-> body, rows |-> rows]

\* raise HTTPException(status_code=code, detail=detail) reaching FastAPI.
HttpError(code, detail) ==
    [status |-> code, raised |-> "HTTPException", detail |-> detail, body |-> "", rows |-> << >>]

\* raise ValueError(detail) reaching the caller of a utility function.
ValueError(detail) ==
    [status |-> 0, raised |-> "ValueError", detail |-> detail, body |-> "", rows |-> << >>]

\* levels_data = None, and a levels dict: its "up_levels", "down_levels" and
\* "price" entries.
NoLevelsData == [present |-> FALSE, up_levels |-> << >>, down_levels |-> << >>, price |-> None]
BreachPrices == {100, 200, 300}
BreachLevels == {None} \cup {Some(p) : p \in BreachPrices}
BreachLists == { << >> } \cup {<<a>> : a \in BreachLevels}
                  \cup {<<a, b>> : a \in BreachLevels, b \in BreachLevels}
LevelsData == [present : {TRUE}, up_levels : BreachLists, down_levels : BreachLists,
               price : BreachLevels]

\* The dict check_price_breaches returns; returned is FALSE before the return.
\* previous_price is None in the early returns, whose dict has no such key.
NoBreaches == [returned |-> FALSE, error |-> "", breached_up |-> FALSE,
               breached_down |-> FALSE, breached_levels |-> << >>,
               previous_price |-> None]

ApiCleared ==
    /\ apc = "idle"
    /\ aop = "none"
    /\ ticker = ""
    /\ recalculate = FALSE
    /\ attempt = 0
    /\ retry_delay = 0
    /\ retry_count = 0
    /\ sleeps = << >>
    /\ yields = << >>
    /\ market_data = "none"
    /\ response = NoResponse
    /\ current_price = None
    /\ levels_data = NoLevelsData
    /\ breaches = NoBreaches

\* GET /levels/{ticker}: the handler up to its retry loop. The stored levels
\* are returned when there are some; an exception of get_gann_levels is logged
\* and the calculation follows, as it does when nothing is stored.
LevelsRequest ==
    /\ apc = "idle"
    /\ \E t \in Tickers, rc \in BOOLEAN, stored \in StoredLevels \cup Failures :
        /\ aop' = "get_levels_for_ticker"
        /\ ticker' = upper(t)
        /\ recalculate' = rc
        /\ retry_delay' = 2
        /\ attempt' = 0
        /\ IF ~rc /\ firestore_available /\ stored \in StoredLevels
              THEN /\ response' = Ok(stored, << >>)
                   /\ apc' = "done"
              ELSE /\ response' = response
                   /\ apc' = "attempting"
        /\ UNCHANGED <<gridVars, callVars, queryVars, firestore_available, retry_count,
                       sleeps, yields, market_data, current_price, levels_data, breaches>>

\* The same with a sleep after every failed attempt, the last included.
LevelsAttempt_SleepAfterLast ==
    /\ apc = "attempting"
    /\ aop = "get_levels_for_ticker"
    /\ attempt < max_retries
    /\ \E got \in CalculatedLevels \cup Failures :
        /\ yields' = Append(yields, got)
        /\ IF got \in CalculatedLevels
              THEN /\ response' = Ok(got, << >>)
                   /\ apc' = "done"
                   /\ UNCHANGED <<attempt, retry_delay, sleeps>>
              ELSE /\ sleeps' = Append(sleeps, retry_delay)
                   /\ retry_delay' = retry_delay * 2
                   /\ attempt' = attempt + 1
                   /\ UNCHANGED <<apc, response>>
        /\ UNCHANGED <<gridVars, callVars, queryVars, firestore_available, aop, ticker,
                       recalculate, retry_count, market_data, current_price,
                       levels_data, breaches>>

\* One pass of "for attempt in range(max_retries)": levels are returned; None
\* and an exception are logged, followed by a sleep of retry_delay seconds and
\* its doubling unless this was the last attempt.
LevelsAttempt ==
    /\ apc = "attempting"
    /\ aop = "get_levels_for_ticker"
    /\ attempt < max_retries
    /\ \E got \in CalculatedLevels \cup Failures :
        /\ yields' = Append(yields, got)
        /\ IF got \in CalculatedLevels
              THEN /\ response' = Ok(got, << >>)
                   /\ apc' = "done"
                   /\ UNCHANGED <<attempt, retry_delay, sleeps>>
              ELSE /\ IF attempt < max_retries - 1
                         THEN /\ sleeps' = Append(sleeps, retry_delay)
                              /\ retry_delay' = retry_delay * 2
                         ELSE UNCHANGED <<sleeps, retry_delay>>
                   /\ attempt' = attempt + 1
                   /\ UNCHANGED <<apc, response>>
        /\ UNCHANGED <<gridVars, callVars, queryVars, firestore_available, aop, ticker,
                       recalculate, retry_count, market_data, current_price,
                       levels_data, breaches>>

\* The loop is exhausted: HTTPException 429, re-raised by "except
\* HTTPException: raise".
LevelsExhausted ==
    /\ apc = "attempting"
    /\ aop = "get_levels_for_ticker"
    /\ attempt = max_retries
    /\ response' = HttpError(429, <<"Unable to fetch market data after multiple attempts", ticker>>)
    /\ apc' = "done"
    /\ UNCHANGED <<gridVars, callVars, queryVars, firestore_available, aop, ticker,
                   recalculate, attempt, retry_delay, retry_count, sleeps, yields,
                   market_data, current_price, levels_data, breaches>>

\* get_historical_data(ticker, ...) up to its retry loop.
HistoryDataCall ==
    /\ apc = "idle"
    /\ \E t \in Tickers \cup {""} :
        /\ aop' = "get_historical_data"
        /\ ticker' = t
        /\ retry_count' = 0
        /\ IF t = ""
              THEN /\ response' = ValueError(<<"Ticker symbol is required">>)
                   /\ apc' = "done"
              ELSE /\ response' = response
                   /\ apc' = "downloading"
        /\ UNCHANGED <<gridVars, callVars, queryVars, firestore_available, recalculate,
                       attempt, retry_delay, sleeps, yields, market_data,
                       current_price, levels_data, breaches>>

\* An except clause that never raises: every failure is slept on.
DownloadExcept_NeverRaises(rc, slept) ==
    /\ retry_count' = rc + 1
    /\ sleeps' = Append(slept, 2 ^ (rc + 1))
    /\ UNCHANGED <<apc, response>>

\* The except clause of the loop of get_historical_data, entered with
\* retry_count = rc after the sleeps slept: the count grows, the last failure
\* raises, any other is followed by a sleep of 2 ** retry_count seconds.
DownloadExcept(rc, slept) ==
    /\ retry_count' = rc + 1
    /\ IF rc + 1 >= history_max_retries
          THEN /\ response' = ValueError(<<"Failed to fetch data after 3 attempts", ticker>>)
               /\ apc' = "done"
               /\ sleeps' = slept
          ELSE /\ sleeps' = Append(slept, 2 ^ (rc + 1))
               /\ UNCHANGED <<apc, response>>

\* The test of "while retry_count < max_retries" and one pass of the body, or
\* the statement after the loop. An empty frame and a frame without the
\* columns count as a failure and continue; on the last failure they raise
\* inside the try, which the except clause catches.
HistoryDataAttempt ==
    /\ apc = "downloading"
    /\ aop = "get_historical_data"
    /\ \E got \in DownloadYields, d \in HistoryData :
        /\ IF retry_count < history_max_retries
              THEN LET slept == Append(sleeps, 1 * (retry_count + 1)) IN
                   /\ yields' = Append(yields, got)
                   /\ CASE got = "data" ->
                            /\ response' = Ok("", d)
                            /\ apc' = "done"
                            /\ sleeps' = slept
                            /\ UNCHANGED retry_count
                        [] got \in {"empty", "missing_columns"} ->
                            IF retry_count + 1 >= history_max_retries
                               THEN DownloadExcept(retry_count + 1, slept)
                               ELSE /\ retry_count' = retry_count + 1
                                    /\ sleeps' = slept
                                    /\ UNCHANGED <<apc, response>>
                        [] OTHER -> DownloadExcept(retry_count, slept)
              ELSE /\ response' = ValueError(<<"Unexpected error fetching data", ticker>>)
                   /\ apc' = "done"
                   /\ UNCHANGED <<retry_count, sleeps, yields>>
        /\ UNCHANGED <<gridVars, callVars, queryVars, firestore_available, aop, ticker,
                       recalculate, attempt, retry_delay, market_data, current_price,
                       levels_data, breaches>>

\* market_data.sort_index(), the removal of duplicated dates and the final
\* unique_result.sort: the dates of the candles, ascending, each once.
RECURSIVE Candles(_)
Candles(rows) ==
    IF rows = << >> THEN << >>
    ELSE LET rest == Candles(Tail(rows)) IN
         IF \E i \in 1..Len(rest) : rest[i] = Head(rows) THEN rest
         ELSE Insert(rest, Head(rows))

\* GET /history/{ticker}. The handler's one except clause, "except Exception",
\* encloses the whole body: it catches the exception of get_historical_data
\* and also the HTTPException 404 the body raises itself, and answers 500.
TickerHistoryRequest ==
    /\ apc = "idle"
    /\ \E t \in Tickers, md \in {"none", "empty", "raised", "data"}, d \in HistoryData :
        /\ aop' = "get_ticker_history"
        /\ ticker' = upper(t)
        /\ market_data' = md
        /\ apc' = "done"
        /\ response' =
              CASE md \in {"none", "empty"} ->
                       HttpError(500, <<"Error fetching market data",
                                        "No market data available for", upper(t)>>)
                [] md = "raised" ->
                       HttpError(500, <<"Error fetching market data", "ValueError">>)
                [] OTHER -> Ok("candles", Candles(d))
        /\ UNCHANGED <<gridVars, callVars, queryVars, firestore_available, recalculate,
                       attempt, retry_delay, retry_count, sleeps, yields,
                       current_price, levels_data, breaches>>

\* The early returns of check_price_breaches: no flags, no levels, an error.
BreachesError(message) ==
    [returned |-> TRUE, error |-> message, breached_up |-> FALSE,
     breached_down |-> FALSE, breached_levels |-> << >>, previous_price |-> None]

\* check_price_breaches(ticker, current_price) up to "Extract the levels": the
\* price is fetched when not given; the stored levels are used when firestore
\* is available and has some; else (nothing stored, or get_gann_levels raised,
\* which leaves levels_data None) new ones are calculated.
BreachesCall ==
    /\ apc = "idle"
    /\ \E t \in Tickers, given \in BreachLevels, fetched \in BreachLevels,
       source \in {"stored", "calculated"}, data \in LevelsData \cup {NoLevelsData} :
        /\ source = "stored" => firestore_available /\ data.present
        /\ aop' = "check_price_breaches"
        /\ ticker' = t
        /\ current_price' = IF given = None THEN fetched ELSE given
        /\ IF current_price' = None
              THEN /\ breaches' = BreachesError("Failed to get current price")
                   /\ apc' = "done"
                   /\ UNCHANGED <<levels_data, yields>>
              ELSE /\ levels_data' = data
                   /\ yields' = IF source = "stored" THEN yields
                                                     ELSE Append(yields, "calculated")
                   /\ IF data.present
                         THEN /\ apc' = "checking"
                              /\ UNCHANGED breaches
                         ELSE /\ breaches' = BreachesError("Failed to calculate levels")
                              /\ apc' = "done"
        /\ UNCHANGED <<gridVars, callVars, queryVars, firestore_available, recalculate,
                       attempt, retry_delay, retry_count, sleeps, market_data, response>>

\* level is not None and previous_price < level <= current_price, with the
\* left comparison not strict.
BreachedUp_FromPrevious(previous_price, level, current) ==
    level # None /\ previous_price <= level[1] /\ level[1] <= current

\* level is not None and previous_price < level <= current_price
BreachedUp(previous_price, level, current) ==
    level # None /\ previous_price < level[1] /\ level[1] <= current

\* level is not None and previous_price > level >= current_price
BreachedDown(previous_price, level, current) ==
    level # None /\ previous_price > level[1] /\ level[1] >= current

\* breached_levels.append({"level": level, "direction": direction}) for the
\* levels of the list in order.
RECURSIVE Appended(_, _)
Appended(levels, direction) ==
    IF levels = << >> THEN << >>
    ELSE <<[level |-> Head(levels)[1], direction |-> direction]>>
             \o Appended(Tail(levels), direction)

\* The rest of check_price_breaches: both loops, the recalculation after a
\* breach, the returned dict.
BreachesCheck ==
    /\ apc = "checking"
    /\ aop = "check_price_breaches"
    /\ IF levels_data.price = None
          THEN /\ breaches' = BreachesError("No previous price found")
               /\ UNCHANGED yields
          ELSE LET previous_price == levels_data.price[1]
                   current == current_price[1]
                   Up(level) == BreachedUp(previous_price, level, current)
                   Down(level) == BreachedDown(previous_price, level, current)
                   ups == SelectSeq(levels_data.up_levels, Up)
                   downs == SelectSeq(levels_data.down_levels, Down)
               IN  /\ breaches' = [returned |-> TRUE, error |-> "",
                                   breached_up |-> ups # << >>,
                                   breached_down |-> downs # << >>,
                                   breached_levels |-> Appended(ups, "up")
                                                          \o Appended(downs, "down"),
                                   previous_price |-> levels_data.price]
                   /\ yields' = IF ups # << >> \/ downs # << >>
                                   THEN Append(yields, "recalculated")
                                   ELSE yields
    /\ apc' = "done"
    /\ UNCHANGED <<gridVars, callVars, queryVars, firestore_available, aop, ticker,
                   recalculate, attempt, retry_delay, retry_count, sleeps, market_data,
                   response, current_price, levels_data>>

\* The call is over; the next one starts from a clean frame.
ApiReturn ==
    /\ apc = "done"
    /\ apc' = "idle"
    /\ aop' = "none"
    /\ ticker' = ""
    /\ recalculate' = FALSE
    /\ attempt' = 0
    /\ retry_delay' = 0
    /\ retry_count' = 0
    /\ sleeps' = << >>
    /\ yields' = << >>
    /\ market_data' = "none"
    /\ response' = NoResponse
    /\ current_price' = None
    /\ levels_data' = NoLevelsData
    /\ breaches' = NoBreaches
    /\ UNCHANGED <<gridVars, callVars, queryVars, firestore_available>>

\* ------------------------------------------------------------ specification

Init ==
    /\ \E n \in 1..MaxSize : GenerateStart(n)
    /\ FrameCleared
    /\ QueryCleared
    /\ ApiCleared
    /\ firestore_available = FALSE

Next ==
    \/ SpiralWrite
    \/ SpiralBreak
    \/ SpiralExit
    \/ Call
    \/ Normalize
    \/ Nearest
    \/ Spokes
    \/ ReturnEmpty
    \/ Index
    \/ SliceValues
    \/ Rescale
    \/ RescaleRaise
    \/ Pad
    \/ Return
    \/ Except
    \/ NextCall

\* The construction of the grid alone, for the sizes 1..MaxWalkSize (the tests'
\* size 20 among them).
InitGrid ==
    /\ \E n \in 1..MaxWalkSize : GenerateStart(n)
    /\ FrameCleared
    /\ QueryCleared
    /\ ApiCleared
    /\ firestore_available = FALSE

NextGrid == SpiralWrite \/ SpiralBreak \/ SpiralExit

SpecGrid == InitGrid /\ [][NextGrid]_vars

\* The construction of the grid for the sizes 1..MaxQuerySize, then calls of
\* its methods.
InitQuery ==
    /\ \E n \in 1..MaxQuerySize : GenerateStart(n)
    /\ FrameCleared
    /\ QueryCleared
    /\ ApiCleared
    /\ firestore_available = FALSE

NextQuery ==
    \/ SpiralWrite
    \/ SpiralBreak
    \/ SpiralExit
    \/ QueryNearest
    \/ QueryPosition
    \/ QueryAngle
    \/ QueryCardinal
    \/ QuerySpokes
    \/ QueryReturn

SpecQuery == InitQuery /\ [][NextQuery]_vars

\* The backend: calls of the API functions one at a time, with the firestore
\* import having succeeded or not. The functions modelled do not read the grid,
\* whose variables keep the values of a construction that has just started.
InitBackend ==
    /\ GenerateStart(1)
    /\ FrameCleared
    /\ QueryCleared
    /\ ApiCleared
    /\ firestore_available \in BOOLEAN

NextBackend ==
    \/ LevelsRequest
    \/ LevelsAttempt
    \/ LevelsExhausted
    \/ HistoryDataCall
    \/ HistoryDataAttempt
    \/ TickerHistoryRequest
    \/ BreachesCall
    \/ BreachesCheck
    \/ ApiReturn

SpecBackend == InitBackend /\ [][NextBackend]_vars

\* The same where a call that has started is carried on: the handlers run to
\* completion, their sleeps end and the callee's tries return.
SpecBackendFair ==
    /\ SpecBackend
    /\ WF_vars(LevelsAttempt)
    /\ WF_vars(LevelsExhausted)
    /\ WF_vars(HistoryDataAttempt)
    /\ WF_vars(BreachesCheck)

Spec == Init /\ [][Next]_vars

\* ------------------------------------------------------------------ claims

\* Every entry of the list is the missing marker and there are n of them.
IsAllMissing(s, n) == Len(s) = n /\ \A i \in 1..Len(s) : s[i] = None

\* The call has returned to its caller.
Returned == pc = "done" /\ outcome = "returned"

\* The statement named by label was executed in this call.
Ran(label) == \E i \in 1..Len(path) : path[i] = label

\* C1: whatever the price, the reference angle and num_levels >= 0, the result
\* returned by calculate_gann_levels has exactly num_levels entries in
\* up_levels and in down_levels, on the normal path, the empty-spoke path and
\* the exception path.
C1_ResultLengths ==
    Returned =>
        /\ Len(result.up_levels) = num_levels
        /\ Len(result.down_levels) = num_levels

\* A normal return whose lists hold real levels and padding.
C1_Witness ==
    /\ Returned
    /\ Ran("return")
    /\ Len(up_values) = num_levels
    /\ 0 < Len(down_values)
    /\ Len(down_values) < num_levels

\* C2: for every size N >= 1 the finished grid holds 1 at (N div 2, N div 2),
\* get_position(1) is that cell and get_angle(1) is 0.
C2_Center ==
    gpc = "done" =>
        /\ matrix[size \div 2][size \div 2] = 1
        /\ get_position(1) = <<size \div 2, size \div 2>>
        /\ get_angle(1) = Some(0)

\* A finished grid of even size, whose first row and column stay zero.
C2_Witness == gpc = "done" /\ size = 6 /\ matrix[0][0] = 0 /\ matrix[5][5] = 13

\* C3: in the grid of size 20 the cell left of the center holds 2, the cell
\* up-left of the center holds 3 and the cell above the center holds 4.
C3_TestLayout ==
    (gpc = "done" /\ size = TestSize) =>
        /\ matrix[TestSize \div 2][TestSize \div 2] = 1
        /\ matrix[TestSize \div 2][TestSize \div 2 - 1] = 2
        /\ matrix[TestSize \div 2 - 1][TestSize \div 2 - 1] = 3
        /\ matrix[TestSize \div 2 - 1][TestSize \div 2] = 4

\* The cells of the grid, as <<row, col>>.
Cells == (0..(size - 1)) \X (0..(size - 1))

\* Every non-zero value of the grid lies in 1..size*size and is held by one cell.
C4_Unique ==
    \A a \in Cells :
        matrix[a[1]][a[2]] # 0 =>
            /\ matrix[a[1]][a[2]] \in 1..(size * size)
            /\ \A b \in Cells : matrix[b[1]][b[2]] = matrix[a[1]][a[2]] => b = a

\* A step that changes the grid writes the next value, larger than every value
\* written before, into one cell that was still zero, and nothing else.
C4_WriteOnce ==
    matrix' # matrix =>
        /\ \E a \in Cells :
               /\ matrix[a[1]][a[2]] = 0
               /\ matrix' = [matrix EXCEPT ![a[1]][a[2]] = value]
        /\ \A b \in Cells : matrix[b[1]][b[2]] < value
        /\ value' = value + 1

\* C4: for every size the walk writes 1, 2, 3, ... in increasing order, one
\* value per step and never into a cell written before, so that every non-zero
\* value is held by exactly one cell and lies in 1..size*size.
C4_SpiralOrder == [][C4_WriteOnce]_vars /\ []C4_Unique

\* A finished walk that stopped at the boundary after writing 1..9.
C4_Witness == gpc = "done" /\ size = 4 /\ value = 10 /\ matrix[1][3] = 9

\* C5: calculate_gann_levels never lets an exception reach its caller; a call
\* in which a step failed returns a result whose entries are all missing.
C5_NeverRaises ==
    /\ outcome # "raised"
    /\ (pc = "done" /\ Ran("rescale_raise")) =>
          /\ outcome = "returned"
          /\ IsAllMissing(result.up_levels, num_levels)
          /\ IsAllMissing(result.down_levels, num_levels)

\* A call whose rescaling raised and that returned through the except clause.
C5_Witness == Returned /\ Ran("except") /\ num_levels > 0 /\ up_values # << >>

\* The price or the reference angle is NaN or an infinity.
NonFiniteInput == ~IsFinite(price) \/ ~IsFinite(sun_angle)

\* C6 as claimed: a non-finite price or reference angle is signalled to the
\* caller as an error and is never turned into a returned result.
C6_Original == (pc = "done" /\ NonFiniteInput) => outcome = "raised"

\* C6 as amended: a call with a non-finite price or reference angle signals no
\* error; it returns a result whose up_levels and down_levels are num_levels
\* missing markers each.
C6_NonFiniteAllMissing ==
    (pc = "done" /\ NonFiniteInput) =>
        /\ outcome = "returned"
        /\ IsAllMissing(result.up_levels, num_levels)
        /\ IsAllMissing(result.down_levels, num_levels)

\* A call with an infinite price and spoke values around the anchor.
C6_Witness ==
    /\ Returned
    /\ price = NegInf
    /\ IsFinite(sun_angle)
    /\ num_levels = 2
    /\ Len(spoke_values) > 2

\* C7: when the spoke search finds nothing, both returned lists are num_levels
\* missing markers and neither the index search nor the slicing has run.
C7_EmptySpokes ==
    (pc = "done" /\ Ran("spokes") /\ spoke_values = << >>) =>
        /\ outcome = "returned"
        /\ IsAllMissing(result.up_levels, num_levels)
        /\ IsAllMissing(result.down_levels, num_levels)
        /\ ~Ran("index")
        /\ ~Ran("slice")
        /\ nearest_idx = -1
        /\ up_values = << >>
        /\ down_values = << >>

\* A call with finite arguments on a grid none of whose values lies on a spoke.
C7_Witness ==
    /\ Returned
    /\ spoke_values = << >>
    /\ IsFinite(price)
    /\ IsFinite(sun_angle)
    /\ size = 3
    /\ num_levels = 3

\* s is strictly ascending.
Ascending(s) == \A i \in 1..Len(s), j \in 1..Len(s) : i < j => s[i] < s[j]

\* C8: the raw up values are spokes[idx+1 .. idx+num_levels] and the raw down
\* values are spokes[max(0, idx-num_levels) .. idx-1] (0-based), both
\* ascending, the up list starting with the smallest spoke value above the
\* anchor and the down list ending with the largest one below it; the anchor
\* is in neither.
C8_RawSlices ==
    Ran("slice") =>
        LET idx == nearest_idx
            len == Len(spoke_values)
            anchor == spoke_values[idx + 1]
            nup == IF num_levels < len - idx - 1 THEN num_levels ELSE len - idx - 1
            ndown == IF num_levels < idx THEN num_levels ELSE idx
        IN  /\ Len(up_values) = nup
            /\ \A i \in 1..nup : up_values[i] = spoke_values[idx + 1 + i]
            /\ Len(down_values) = ndown
            /\ \A j \in 1..ndown : down_values[j] = spoke_values[idx - ndown + j]
            /\ Ascending(up_values)
            /\ Ascending(down_values)
            /\ nup > 0 =>
                  /\ up_values[1] > anchor
                  /\ \A k \in 1..len : spoke_values[k] > anchor => up_values[1] <= spoke_values[k]
            /\ ndown > 0 =>
                  /\ down_values[ndown] < anchor
                  /\ \A k \in 1..len : spoke_values[k] < anchor => down_values[ndown] >= spoke_values[k]
            /\ \A i \in 1..nup : up_values[i] # anchor
            /\ \A j \in 1..ndown : down_values[j] # anchor

\* The slices were taken with fewer than num_levels spoke values below the anchor.
C8_Witness ==
    /\ pc = "rescale"
    /\ nearest_idx = 2
    /\ num_levels = 3
    /\ Len(down_values) = 2
    /\ Len(up_values) = 3

\* The real levels of the list form a prefix, in ascending order (levels that
\* round to the same float are equal), and the missing markers a suffix.
RealThenMissing(s, nreal) ==
    /\ \A i \in 1..Len(s) : (s[i] # None) <=> (i <= nreal)
    /\ \A i \in 1..nreal, j \in 1..nreal : i < j => s[i][1] <= s[j][1]

\* C9: in both returned lists the real levels come first and the missing
\* markers last; with fewer than num_levels spoke values below the anchor,
\* down_levels is those levels ascending and then the missing markers.
C9_PaddingAtEnd ==
    /\ Returned =>
          /\ \A i \in 1..Len(result.up_levels), j \in 1..Len(result.up_levels) :
                (i < j /\ result.up_levels[i] = None) => result.up_levels[j] = None
          /\ \A i \in 1..Len(result.down_levels), j \in 1..Len(result.down_levels) :
                (i < j /\ result.down_levels[i] = None) => result.down_levels[j] = None
    /\ (Returned /\ Ran("return")) =>
          /\ RealThenMissing(result.up_levels, Len(up_values))
          /\ RealThenMissing(result.down_levels, Len(down_values))

\* One spoke value below the anchor and three levels asked for.
C9_Witness ==
    /\ Returned
    /\ num_levels = 3
    /\ Len(down_values) = 1
    /\ result.down_levels[1] # None
    /\ result.down_levels[2] = None
    /\ result.down_levels[3] = None

\* floor(price / 360) and price - 360 * floor(price / 360), exactly (milli).
ExactFloor == price.v \div 360000
ExactRemainder == price.v - 360000 * ExactFloor

\* Every real level of the returned list is the float nearest to
\* v/10 + 360*floor(price/360) for the raw value v at the same place.
LevelsRescaled(levels, raw) ==
    \A i \in 1..Len(raw) : levels[i] = Some(Rnd(raw[i] * 100 + 360000 * ExactFloor))

\* C10 as claimed: for a finite price the normalized price lies in [0, 360),
\* equals price - 360*floor(price/360), and every non-missing level is
\* v/10 + 360*floor(price/360).
C10_Original ==
    (IsFinite(price) /\ Ran("normalize")) =>
        /\ IsFinite(normalized_price)
        /\ 0 <= normalized_price.v
        /\ normalized_price.v < 360000
        /\ normalized_price.v = ExactRemainder
        /\ (Returned /\ Ran("return")) =>
              /\ LevelsRescaled(result.up_levels, up_values)
              /\ LevelsRescaled(result.down_levels, down_values)

\* C10 as amended: for a finite price the normalized price lies in [0, 360]
\* and is the float nearest to price - 360*floor(price/360), which is 360
\* itself only for a negative price; every non-missing level is
\* v/10 + 360*floor(price/360).
C10_NormalizedClosed ==
    (IsFinite(price) /\ Ran("normalize")) =>
        /\ IsFinite(normalized_price)
        /\ 0 <= normalized_price.v
        /\ normalized_price.v <= 360000
        /\ normalized_price.v = Rnd(ExactRemainder)
        /\ normalized_price.v = 360000 => price.v < 0
        /\ (Returned /\ Ran("return")) =>
              /\ LevelsRescaled(result.up_levels, up_values)
              /\ LevelsRescaled(result.down_levels, down_values)

\* A negative price an octave below zero, with real levels returned.
C10_Witness ==
    /\ Returned
    /\ Ran("return")
    /\ price = Fin(-359300)
    /\ normalized_price = Fin(700)
    /\ Len(down_values) = 3
    /\ result.down_levels[3] = Some(600 - 360000)

\* A method of the grid was called and has returned.
Answered(method) == gpc = "done" /\ qpc = "answered" /\ qop = method

\* The values of a list.
Elements(s) == {s[i] : i \in 1..Len(s)}

\* The circular distance of two angles (milli), each in 0..360000.
CircDist(a, b) == Min2(Abs(a - b), 360000 - Abs(a - b))

\* (angle + 45 * i) mod 360 in exact arithmetic (milli).
SpokeAngle(angle, i) == (angle + 45000 * i) % 360000

\* The value has an angle within 5 degrees of one of the eight spokes of angle.
NearSomeSpoke(v, angle) ==
    /\ get_angle(v) # None
    /\ \E i \in 0..7 : CircDist(get_angle(v)[1], SpokeAngle(angle, i)) <= 5000

\* C11: the result of find_spoke_values depends only on the grid and on the
\* reference angle: whatever is passed as its value argument, the call with
\* the same sun_angle returns the same sequence.
C11_ValueIgnored ==
    Answered("find_spoke_values") =>
        \A v2 \in SpokeQueryValues : find_spoke_values(v2, qfloat) = qres

\* A spoke search called with a value that lies off the cardinal directions.
C11_Witness ==
    /\ Answered("find_spoke_values")
    /\ size = 5
    /\ qvalue = 10
    /\ get_angle(10) = Some(63440)
    /\ qfloat = Fin(22000)
    /\ qres # << >>

NonDecreasing(s) == \A i \in 1..Len(s), j \in 1..Len(s) : i < j => s[i] <= s[j]

\* C13 as claimed: the sequence returned by find_spoke_values is in ascending
\* order of value for every grid and every reference angle.
C13_Original ==
    pc = "check" => NonDecreasing(find_spoke_values(nearest_value, sun_angle))

\* C13 as amended: find_spoke_values returns its values spoke by spoke; the
\* sequence calculate_gann_levels works with, which is that result after its
\* own sort, holds the same values in ascending order, for every grid and
\* every reference angle.
C13_SortedByCaller ==
    /\ Ran("spokes") => NonDecreasing(spoke_values)
    /\ pc = "check" =>
          LET returned == find_spoke_values(nearest_value, sun_angle)
          IN  /\ Elements(spoke_values) = Elements(returned)
              /\ Len(spoke_values) = Len(returned)

\* A call whose spoke search came back out of order and was put in order.
C13_Witness ==
    /\ pc = "check"
    /\ size = 3
    /\ sun_angle = Fin(0)
    /\ find_spoke_values(nearest_value, sun_angle) = <<1, 8, 9, 2, 3, 4, 5, 6, 7>>
    /\ spoke_values = <<1, 2, 3, 4, 5, 6, 7, 8, 9>>

\* C14: for every grid and reference angle no value occurs more than once in
\* the result of the spoke search: each value is within 5 degrees of at most
\* one of the eight spoke angles, so the sorted sequence is strictly increasing.
C14_NoDuplicates ==
    Answered("find_spoke_values") =>
        /\ \A i \in 1..Len(qres), j \in 1..Len(qres) : i # j => qres[i] # qres[j]
        /\ IsFinite(qfloat) =>
              \A v \in 1..(size * size) :
                  get_angle(v) # None =>
                      Cardinality({i \in 0..7 :
                          CircDist(get_angle(v)[1], SpokeAngle(qfloat.v, i)) <= 5000}) <= 1
        /\ Ascending(Sorted(qres))

\* A spoke search that finds several values on several spokes.
C14_Witness ==
    /\ Answered("find_spoke_values")
    /\ size = 7
    /\ qfloat = Fin(22000)
    /\ Len(qres) >= 8

\* The values the walk wrote into the grid: the non-zero entries.
Populated == {matrix[a[1]][a[2]] : a \in Cells} \ {0}

\* The last value the walk wrote.
LastPlaced == CHOOSE m \in Populated : \A w \in Populated : w <= m

\* C15: for every grid and every real target, find_nearest_value returns a
\* populated grid value (placed by the walk, hence at least 1) whose absolute
\* difference from the target is minimal among the populated values; an
\* unpopulated zero cell is never returned.
C15_NearestPopulated ==
    (Answered("find_nearest_value") /\ IsFinite(qfloat)) =>
        /\ qres >= 1
        /\ qres \in Populated
        /\ \A w \in Populated :
              Abs(qres * 1000 - qfloat.v) <= Abs(w * 1000 - qfloat.v)

\* The target is k + 0.5 and both k and k + 1 are entries of the grid.
TieBetween(k) ==
    /\ IsFinite(qfloat)
    /\ qfloat.v = k * 1000 + 500
    /\ \E a \in Cells : matrix[a[1]][a[2]] = k
    /\ \E a \in Cells : matrix[a[1]][a[2]] = k + 1

\* C16: when two grid values are equally close to the target (the target is
\* k + 0.5), find_nearest_value returns the one whose cell comes first in the
\* row-major scan, so the result is one of k and k + 1 and is fixed by the
\* grid and the target.
C16_TieFirstCell ==
    Answered("find_nearest_value") =>
        \A k \in 0..(size * size) :
            TieBetween(k) =>
                /\ qres \in {k, k + 1}
                /\ \E i \in 0..(size * size - 1) :
                      /\ Flat(i) = qres
                      /\ \A j \in 0..(i - 1) : Flat(j) \notin {k, k + 1}

\* A tie between 6 and 7 on the grid of size 5, where 7 is scanned first.
C16_Witness ==
    /\ Answered("find_nearest_value")
    /\ size = 5
    /\ qfloat = Fin(6500)
    /\ matrix[1][1] = 7
    /\ matrix[2][1] = 6
    /\ qres = 7

\* C17: for every grid and every integer v that the walk did not place (v
\* outside 1..M, M the last value written; 0 and the values above size*size
\* among them), get_position(v) and get_angle(v) return the missing marker and
\* is_on_cardinal_angle(v) returns false; for every placed v they return a
\* position inside the grid and an angle.
C17_MissingMarker ==
    /\ Answered("get_position") =>
          IF qvalue \in 1..LastPlaced
          THEN qres # None /\ qres \in Cells
          ELSE qres = None
    /\ Answered("get_angle") =>
          IF qvalue \in 1..LastPlaced THEN qres # None ELSE qres = None
    /\ (Answered("is_on_cardinal_angle") /\ qvalue \notin 1..LastPlaced) =>
          qres = FALSE

C19_CardinalTest ==
    Answered("is_on_cardinal_angle") =>
        /\ qres = (/\ get_angle(qvalue) # None
                   /\ \E i \in 1..8 :
                         CircDist(get_angle(qvalue)[1], cardinal_angles[i] * 1000) <= qtol)
        /\ \A d \in 0..359, i \in 1..8 :
              WithinTolerance(d * 1000, Fin(cardinal_angles[i] * 1000), qtol)
                  <=> (CircDist(d * 1000, cardinal_angles[i] * 1000) <= qtol)
        /\ qvalue = 1 => qres = TRUE

\* A value that is on a cardinal angle only across the wrap at 360: its angle
\* 341.57 is within 20 degrees of 0 and of no other cardinal angle.
C19_Witness ==
    /\ Answered("is_on_cardinal_angle")
    /\ size = 7
    /\ qtol = 20000
    /\ get_angle(qvalue) = Some(341570)
    /\ qres = TRUE

\* C20: once the grid is constructed, no call of find_nearest_value,
\* get_position, get_angle, is_on_cardinal_angle or find_spoke_values changes
\* a cell of the matrix or the size.
C20_MatrixFrozen == [][gpc = "done" => (matrix' = matrix /\ size' = size)]_vars

\* A method has answered on a grid that other calls were made on before: the
\* spoke search of the size 3 grid.
C20_Witness ==
    /\ Answered("find_spoke_values")
    /\ size = 3
    /\ matrix[0][0] = 7
    /\ matrix[2][2] = 3
    /\ qres = <<1, 8, 9, 2, 3, 4, 5, 6, 7>>

\* C21: the anchor index used for slicing is the index of nearest_value in the
\* sorted spoke sequence when nearest_value occurs in it; otherwise it is the
\* index of the spoke value with the least absolute difference from
\* nearest_value, the lower index (smaller value) when two are equally distant.
C21_AnchorIndex ==
    Ran("index") =>
        LET i == nearest_idx + 1
        IN  /\ i \in 1..Len(spoke_values)
            /\ nearest_value \in Elements(spoke_values) =>
                  spoke_values[i] = nearest_value
            /\ nearest_value \notin Elements(spoke_values) =>
                  /\ \A j \in 1..Len(spoke_values) :
                        Abs(spoke_values[i] - nearest_value)
                            <= Abs(spoke_values[j] - nearest_value)
                  /\ \A j \in 1..(i - 1) :
                        Abs(spoke_values[j] - nearest_value)
                            > Abs(spoke_values[i] - nearest_value)

\* The fallback with a tie: nearest_value is on no spoke and two spoke values
\* are equally close to it; the lower one is the anchor.
C21_Witness ==
    /\ Ran("index")
    /\ nearest_value \notin Elements(spoke_values)
    /\ \E j \in 1..Len(spoke_values) :
          /\ j > nearest_idx + 1
          /\ Abs(spoke_values[j] - nearest_value)
                = Abs(spoke_values[nearest_idx + 1] - nearest_value)

\* The number of steps taken before leg n (from 0) starts, the legs having the
\* lengths 1, 1, 2, 2, 3, 3, ...
RECURSIVE LegStart(_)
LegStart(n) == IF n = 0 THEN 0 ELSE LegStart(n - 1) + ((n - 1) \div 2 + 1)

\* East, north, west, south as steps <<dx, dy>> on (x, y).
Compass == << <<1, 0>>, <<0, 1>>, <<-1, 0>>, <<0, -1>> >>

\* The walk is in leg n, which has the direction n mod 4 of the compass and
\* the length n div 2 + 1, and has taken the steps of the legs before it and
\* step_count steps of this one.
InLeg(n) ==
    /\ LegStart(n) <= value - 2
    /\ value - 2 < LegStart(n + 1)
    /\ dir_idx = n % 4
    /\ steps = n \div 2 + 1
    /\ step_count = value - 2 - LegStart(n)

\* A step of the walk that writes a value moves one cell in the direction of
\* the current leg.
StepAlongLeg ==
    value' # value =>
        /\ x' = x + Compass[dir_idx + 1][1]
        /\ y' = y + Compass[dir_idx + 1][2]
        /\ last_cell' = <<y', x'>>

LegCompleted == value' = value + 1 /\ step_count + 1 = steps

FirstRowAndColumn == {a \in Cells : a[1] = 0 \/ a[2] = 0}

\* C24: the generation stops at the first step that would leave the grid and
\* writes nothing afterwards: for every odd size N all N*N cells hold 1..N*N,
\* and for every even size N >= 2 exactly (N-1)*(N-1) values are placed,
\* 1..(N-1)^2, and the cells left at 0 are exactly row 0 and column 0.
C24_StopsAtBoundary ==
    gpc = "done" =>
        /\ size % 2 = 1 =>
              /\ Populated = 1..(size * size)
              /\ \A a \in Cells : matrix[a[1]][a[2]] # 0
              /\ value = size * size + 1
        /\ size % 2 = 0 =>
              /\ Populated = 1..((size - 1) * (size - 1))
              /\ {a \in Cells : matrix[a[1]][a[2]] = 0} = FirstRowAndColumn
              /\ value = (size - 1) * (size - 1) + 1
              /\ ~InBounds(x, y)
              /\ matrix[last_cell[1]][last_cell[2]] = value - 1

\* The finished grid of size 4: nine values placed, the walk stopped on its
\* way out of the last column, row 0 and column 0 empty.
C24_Witness ==
    /\ gpc = "done"
    /\ size = 4
    /\ value = 10
    /\ matrix[0][3] = 0
    /\ matrix[3][0] = 0
    /\ matrix[1][3] = 9

\* The scaled price lies within the values of the grid, as it does for the
\* grid of size 150 that calculate_gann_levels builds (values up to 149 * 149,
\* scaled prices up to 3600).
PriceCovered == IsFinite(scaled_price) /\ scaled_price.v <= LastPlaced * 1000

\* The levels of a returned list that are not the missing marker.
RealLevels(levels) == {levels[i][1] : i \in {j \in 1..Len(levels) : levels[j] # None}}

\* The call returned levels for a finite price.
LevelsReturned == Returned /\ Ran("return") /\ IsFinite(price) /\ PriceCovered

Shifts == {-9, 1, 17}

\* The spoke search for the reference angle of the call shifted by 45 * k.
ShiftedSpokes(k) == find_spoke_values(qvalue, PlusFin(qfloat, 45000 * k))

\* Every multiple of 45 degrees can be added to the angle without rounding.
ShiftsExactly(angle) ==
    IsFinite(angle) =>
        \A j \in -9..24 : Rnd(angle.v + 45000 * j) = angle.v + 45000 * j

\* C26 as claimed: the spoke set depends on the reference angle only modulo
\* 45 degrees: for every reference angle a and every integer k the values
\* returned by find_spoke_values for a + 45*k are those returned for a, and
\* so calculate_gann_levels gives the same result for both.
C26_Original ==
    Answered("find_spoke_values") =>
        \A k \in Shifts : Elements(ShiftedSpokes(k)) = Elements(qres)

\* C26 as amended: for every reference angle a and integer k for which the
\* sums a + 45*j are formed without rounding (whole degrees, for instance;
\* negative angles and angles beyond 360 included), the values returned by
\* find_spoke_values for a + 45*k are those returned for a, and the sorted
\* spoke sequence calculate_gann_levels goes on with is the same, hence its
\* result; where a sum is rounded, a value at the edge of the 5 degree window
\* can be on a spoke for one of the two angles and not for the other.
C26_ModuloFortyFive ==
    (Answered("find_spoke_values") /\ ShiftsExactly(qfloat)) =>
        \A k \in Shifts :
            /\ Elements(ShiftedSpokes(k)) = Elements(qres)
            /\ Sorted(ShiftedSpokes(k)) = Sorted(qres)

\* The spoke search for -45 degrees: the values of the search for 0 degrees,
\* in another order.
C26_Witness ==
    /\ Answered("find_spoke_values")
    /\ size = 5
    /\ qfloat = Fin(-45000)
    /\ qres # find_spoke_values(qvalue, Fin(0))
    /\ Elements(qres) = Elements(find_spoke_values(qvalue, Fin(0)))
    /\ Len(qres) = 17

\* The handler of GET /levels/{ticker} is running or has answered.
InLevels == aop = "get_levels_for_ticker"

\* The tries of the callee, among those made so far, that gave None or raised.
Failed == {i \in 1..Len(yields) : yields[i] \in Failures}

\* C27: in the GET /levels/{ticker} handler calculate_levels_for_ticker is
\* attempted at most 3 times; an attempt that yields levels is the last one made
\* and its levels are the response; the waits are 2 s after the first failed
\* attempt and 4 s after the second, none after the third; and the handler
\* answers 429 exactly when three attempts were made and all yielded None or
\* raised.
C27_RetryLoop ==
    InLevels =>
        /\ Len(yields) <= 3
        /\ \A i \in 1..Len(yields) :
              yields[i] \in CalculatedLevels =>
                  /\ i = Len(yields)
                  /\ apc = "done"
                  /\ response = Ok(yields[i], << >>)
        /\ sleeps = SubSeq(<<2, 4>>, 1, Min2(Cardinality(Failed), 2))
        /\ apc = "done" =>
              /\ response.status \in {200, 429}
              /\ response.status = 429 <=>
                    (Len(yields) = 3 /\ Cardinality(Failed) = 3)
              /\ (response.status = 200 /\ yields = << >>) =>
                    (response.body \in StoredLevels /\ ~recalculate /\ firestore_available)

\* Three attempts failed, with a None and an exception among them: two waits,
\* then 429.
C27_Witness ==
    /\ InLevels
    /\ apc = "done"
    /\ response.status = 429
    /\ yields = <<"none", "raised", "none">>
    /\ sleeps = <<2, 4>>
    /\ ticker = "AAPL"

\* get_historical_data is running or has ended, called with a ticker.
InDownload == aop = "get_historical_data" /\ ticker # ""

\* The tries that reached yf.download.
Downloads == {i \in 1..Len(yields) : yields[i] # "bad_dates"}

\* At most 3 downloads; while the loop runs its test holds, so the statement
\* after it is not reached; it ends with the frame of the first try that
\* succeeded, or with ValueError after three failed tries.
DownloadBounded ==
    InDownload =>
        /\ Cardinality(Downloads) <= 3
        /\ Len(yields) <= 3
        /\ apc = "downloading" => retry_count < history_max_retries
        /\ response.detail # <<"Unexpected error fetching data", ticker>>
        /\ apc = "done" =>
              \/ /\ response.status = 200
                 /\ response.rows \in HistoryData
                 /\ yields[Len(yields)] = "data"
                 /\ \A i \in 1..(Len(yields) - 1) : yields[i] # "data"
              \/ /\ response.raised = "ValueError"
                 /\ Len(yields) = 3
                 /\ \A i \in 1..3 : yields[i] # "data"

\* C28: for a non-empty ticker and any sequence of download outcomes,
\* get_historical_data makes at most 3 download attempts and always ends,
\* returning the data of the first successful attempt or raising ValueError
\* after the third failure; the raise after the loop is never reached.
C28_DownloadTerminates ==
    /\ []DownloadBounded
    /\ (InDownload /\ apc = "downloading") ~> (InDownload /\ apc = "done")

\* The third try gives an empty frame: the ValueError raised inside the try is
\* caught by the except clause, which counts once more and raises.
C28_Witness ==
    /\ InDownload
    /\ apc = "done"
    /\ yields = <<"exception", "missing_columns", "empty">>
    /\ retry_count = 4
    /\ sleeps = <<1, 2, 2, 3>>
    /\ response = ValueError(<<"Failed to fetch data after 3 attempts", ticker>>)

BreachesReturned ==
    /\ aop = "check_price_breaches"
    /\ breaches.returned
    /\ breaches.previous_price # None

\* The dict reports the level in the direction.
Reported(level, direction) ==
    \E i \in 1..Len(breaches.breached_levels) :
        breaches.breached_levels[i] = [level |-> level, direction |-> direction]

\* C30: in every result of check_price_breaches that has a previous price, an
\* up level L is reported iff L is not missing and previous_price < L <=
\* current_price, a down level L iff L is not missing and previous_price > L >=
\* current_price, nothing else is reported; breached_up and breached_down are
\* never both true, and breached_levels is empty iff both flags are false.
C30_Breaches ==
    BreachesReturned =>
        LET previous == breaches.previous_price[1]
            current == current_price[1]
            ups == levels_data.up_levels
            downs == levels_data.down_levels
        IN  /\ breaches.previous_price = levels_data.price
            /\ \A p \in BreachPrices :
                  /\ Reported(p, "up") <=>
                        (Some(p) \in Elements(ups) /\ previous < p /\ p <= current)
                  /\ Reported(p, "down") <=>
                        (Some(p) \in Elements(downs) /\ previous > p /\ p >= current)
            /\ \A i \in 1..Len(breaches.breached_levels) :
                  /\ breaches.breached_levels[i].level \in BreachPrices
                  /\ breaches.breached_levels[i].direction \in {"up", "down"}
            /\ breaches.breached_up <=> \E p \in BreachPrices : Reported(p, "up")
            /\ breaches.breached_down <=> \E p \in BreachPrices : Reported(p, "down")
            /\ ~(breaches.breached_up /\ breaches.breached_down)
            /\ (breaches.breached_levels = << >>) <=>
                  (~breaches.breached_up /\ ~breaches.breached_down)

\* The price fell from 200 to 100: of the down levels None, 100 the level equal
\* to the current price is reported; the up level equal to the previous price
\* is not.
C30_Witness ==
    /\ BreachesReturned
    /\ breaches.previous_price = Some(200)
    /\ current_price = Some(100)
    /\ levels_data.down_levels = <<None, Some(100)>>
    /\ levels_data.up_levels = <<Some(200)>>
    /\ breaches.breached_levels = <<[level |-> 100, direction |-> "down"]>>
    /\ breaches.breached_down
    /\ yields = <<"recalculated">>

=============================================================================
